---- MODULE Spec2Model ----
(***************************************************************************)
(* A model of journalwatch (src/journalwatch.py): the pattern-file reader  *)
(* read_patterns, the evaluator filter_message, the formatter format_entry *)
(* and the run() driver with its time file and output sink.                *)
(*                                                                         *)
(* Text is a sequence of one-character strings, so that split, strip,      *)
(* startswith and regex matching are computed character by character.      *)
(***************************************************************************)
EXTENDS Integers, Sequences, FiniteSets, TLC

(***************************************************************************)
(* Bounds of the model.                                                    *)
(***************************************************************************)
MaxLines == 5
MaxConds == 2
MaxRuns == 2
MaxJournal == 2

(***************************************************************************)
(* Python text helpers.                                                    *)
(***************************************************************************)
Whitespace == {" ", "\t", "\n"}

RECURSIVE lstrip(_)
lstrip(s) ==
    IF s # <<>> /\ Head(s) \in Whitespace THEN lstrip(Tail(s)) ELSE s

RECURSIVE rstrip(_)
rstrip(s) ==
    IF s # <<>> /\ s[Len(s)] \in Whitespace
    THEN rstrip(SubSeq(s, 1, Len(s) - 1))
    ELSE s

\* str.strip()
strip(s) == lstrip(rstrip(s))

\* str.rstrip('\n')
RECURSIVE rstrip_nl(_)
rstrip_nl(s) ==
    IF s # <<>> /\ s[Len(s)] = "\n"
    THEN rstrip_nl(SubSeq(s, 1, Len(s) - 1))
    ELSE s

startswith(s, c) == s # <<>> /\ s[1] = c
endswith(s, c) == s # <<>> /\ s[Len(s)] = c

\* str.split(sep): the list of the parts between every occurrence of sep
RECURSIVE split(_, _)
split(s, sep) ==
    IF \A i \in 1..Len(s) : s[i] # sep
    THEN <<s>>
    ELSE LET i == CHOOSE k \in 1..Len(s) :
                      s[k] = sep /\ \A m \in 1..(k - 1) : s[m] # sep
         IN  <<SubSeq(s, 1, i - 1)>> \o split(SubSeq(s, i + 1, Len(s)), sep)

\* sep.join(words)
RECURSIVE join(_, _)
join(sep, words) ==
    IF words = <<>> THEN <<>>
    ELSE IF Len(words) = 1 THEN words[1]
    ELSE words[1] \o sep \o join(sep, Tail(words))

Digit(d) == CASE d = 0 -> "0" [] d = 1 -> "1" [] d = 2 -> "2" [] d = 3 -> "3"
              [] d = 4 -> "4" [] d = 5 -> "5" [] d = 6 -> "6" [] d = 7 -> "7"
              [] d = 8 -> "8" [] d = 9 -> "9"

RECURSIVE NatToStr(_)
NatToStr(n) ==
    IF n < 10 THEN <<Digit(n)>> ELSE NatToStr(n \div 10) \o <<Digit(n % 10)>>

\* str(int)
IntToStr(n) == IF n < 0 THEN <<"-">> \o NatToStr(0 - n) ELSE NatToStr(n)

\* "%02d", "%2d" and "%04d" of a natural number
RECURSIVE PadLeft(_, _, _)
PadLeft(s, width, c) ==
    IF Len(s) >= width THEN s ELSE PadLeft(<<c>> \o s, width, c)

(***************************************************************************)
(* Python's re, for the patterns made of literal characters, '.', and a    *)
(* postfix '*'.  re.compile raises re.error on a '*' with nothing to       *)
(* repeat and on a repeated '*'; match() anchors at position 0 and need    *)
(* not reach the end of the text.                                          *)
(***************************************************************************)
RECURSIVE ParseAtoms(_)
ParseAtoms(p) ==
    IF p = <<>> THEN [ok |-> TRUE, atoms |-> <<>>]
    ELSE IF Head(p) = "*" THEN [ok |-> FALSE, atoms |-> <<>>]
    ELSE LET star == Len(p) >= 2 /\ p[2] = "*"
             rest == ParseAtoms(SubSeq(p, IF star THEN 3 ELSE 2, Len(p)))
         IN  [ok |-> rest.ok,
              atoms |-> <<[ch |-> Head(p), star |-> star]>> \o rest.atoms]

\* re.compile(p) succeeds
re_valid(p) == ParseAtoms(p).ok

AtomMatches(a, c) == IF a.ch = "." THEN c # "\n" ELSE a.ch = c

RECURSIVE MatchFrom(_, _, _, _)
MatchFrom(atoms, i, s, j) ==
    IF i > Len(atoms) THEN TRUE
    ELSE LET a == atoms[i]
             one == j <= Len(s) /\ AtomMatches(a, s[j])
         IN  IF a.star
             THEN MatchFrom(atoms, i + 1, s, j)
                  \/ (one /\ MatchFrom(atoms, i, s, j + 1))
             ELSE one /\ MatchFrom(atoms, i + 1, s, j + 1)

\* re.compile(p).match(s) is not None
re_match(p, s) == MatchFrom(ParseAtoms(p).atoms, 1, s, 1)

(***************************************************************************)
(* Journal field values: str, int, bytes and datetime.                     *)
(***************************************************************************)
StrV(s) == [type |-> "str", s |-> s, n |-> 0, b |-> <<>>, dt |-> <<>>]
IntV(n) == [type |-> "int", s |-> <<>>, n |-> n, b |-> <<>>, dt |-> <<>>]
BytesV(b) == [type |-> "bytes", s |-> <<>>, n |-> 0, b |-> b, dt |-> <<>>]
\* dt = <<year, month, day, hour, minute, second>>, naive, microsecond 0
DateV(dt) == [type |-> "datetime", s |-> <<>>, n |-> 0, b |-> <<>>, dt |-> dt]

HexDigit(d) == IF d < 10 THEN Digit(d)
               ELSE CASE d = 10 -> "a" [] d = 11 -> "b" [] d = 12 -> "c"
                      [] d = 13 -> "d" [] d = 14 -> "e" [] d = 15 -> "f"

\* The printable bytes the model uses, as characters
Chr(c) == CASE c = 103 -> "g" [] c = 109 -> "m" [] c = 115 -> "s"

\* repr() of one byte inside b'...'
ByteRepr(c) ==
    IF c \in {103, 109, 115} THEN <<Chr(c)>>
    ELSE <<"\\", "x", HexDigit(c \div 16), HexDigit(c % 16)>>

RECURSIVE BytesBody(_)
BytesBody(b) == IF b = <<>> THEN <<>> ELSE ByteRepr(Head(b)) \o BytesBody(Tail(b))

\* str(datetime): isoformat(sep=' ')
DateIso(dt) ==
    PadLeft(NatToStr(dt[1]), 4, "0") \o <<"-">> \o PadLeft(NatToStr(dt[2]), 2, "0")
    \o <<"-">> \o PadLeft(NatToStr(dt[3]), 2, "0") \o <<" ">>
    \o PadLeft(NatToStr(dt[4]), 2, "0") \o <<":">> \o PadLeft(NatToStr(dt[5]), 2, "0")
    \o <<":">> \o PadLeft(NatToStr(dt[6]), 2, "0")

\* str(value)
str(v) ==
    CASE v.type = "str" -> v.s
      [] v.type = "int" -> IntToStr(v.n)
      [] v.type = "bytes" -> <<"b", "'">> \o BytesBody(v.b) \o <<"'">>
      [] v.type = "datetime" -> DateIso(v.dt)

(***************************************************************************)
(* Field names and fixed texts of the program.                             *)
(***************************************************************************)
MESSAGE == <<"M", "E", "S", "S", "A", "G", "E">>
PRIORITY == <<"P", "R", "I", "O", "R", "I", "T", "Y">>
SYSLOG_IDENTIFIER ==
    <<"S", "Y", "S", "L", "O", "G", "_", "I", "D", "E", "N", "T", "I", "F", "I", "E", "R">>
SYSTEMD_UNIT == <<"_", "S", "Y", "S", "T", "E", "M", "D", "_", "U", "N", "I", "T">>
REALTIME_TIMESTAMP ==
    <<"_", "_", "R", "E", "A", "L", "T", "I", "M", "E", "_",
      "T", "I", "M", "E", "S", "T", "A", "M", "P">>
PID == <<"_", "P", "I", "D">>

\* 'EMPTY!'
EMPTY == <<"E", "M", "P", "T", "Y", "!">>

\* "[journalwatch: {}B blob data]".format(n)
BlobText(n) ==
    <<"[", "j", "o", "u", "r", "n", "a", "l", "w", "a", "t", "c", "h", ":", " ">>
    \o NatToStr(n)
    \o <<"B", " ", "b", "l", "o", "b", " ", "d", "a", "t", "a", "]">>

\* A result of a call: a returned value, or the exception it raised
Returned(v) == [exc |-> "none", val |-> v]
Raised(e) == [exc |-> e, val |-> <<>>]

(***************************************************************************)
(* read_entry_message: the entry's MESSAGE, the default when there is      *)
(* none, and the blob text for a bytes payload.  Other values are returned *)
(* as they are.                                                            *)
(***************************************************************************)
\* read_entry_message that decodes a bytes payload as text
read_entry_message_decoded(entry, replace_empty) ==
    LET default == StrV(IF replace_empty THEN EMPTY ELSE <<>>)
        message == IF MESSAGE \in DOMAIN entry THEN entry[MESSAGE] ELSE default
    IN  IF message.type = "bytes" THEN StrV(BytesBody(message.b)) ELSE message

read_entry_message(entry, replace_empty) ==
    LET default == StrV(IF replace_empty THEN EMPTY ELSE <<>>)
        message == IF MESSAGE \in DOMAIN entry THEN entry[MESSAGE] ELSE default
    IN  IF message.type = "bytes" THEN StrV(BlobText(Len(message.b))) ELSE message

(***************************************************************************)
(* datetime.ctime: "%s %s %2d %02d:%02d:%02d %04d" of the weekday name,    *)
(* the month name, day, hour, minute, second and year.                     *)
(***************************************************************************)
DayNames == << <<"M", "o", "n">>, <<"T", "u", "e">>, <<"W", "e", "d">>, <<"T", "h", "u">>,
               <<"F", "r", "i">>, <<"S", "a", "t">>, <<"S", "u", "n">> >>
MonthNames == << <<"J", "a", "n">>, <<"F", "e", "b">>, <<"M", "a", "r">>, <<"A", "p", "r">>,
                 <<"M", "a", "y">>, <<"J", "u", "n">>, <<"J", "u", "l">>, <<"A", "u", "g">>,
                 <<"S", "e", "p">>, <<"O", "c", "t">>, <<"N", "o", "v">>, <<"D", "e", "c">> >>
DaysBeforeMonth == <<0, 31, 59, 90, 120, 151, 181, 212, 243, 273, 304, 334>>
IsLeap(y) == y % 4 = 0 /\ (y % 100 # 0 \/ y % 400 = 0)

toordinal(dt) ==
    LET y == dt[1] - 1
    IN  y * 365 + (y \div 4) - (y \div 100) + (y \div 400)
        + DaysBeforeMonth[dt[2]] + (IF dt[2] > 2 /\ IsLeap(dt[1]) THEN 1 ELSE 0)
        + dt[3]

ctime(dt) ==
    LET weekday == IF toordinal(dt) % 7 = 0 THEN 7 ELSE toordinal(dt) % 7
    IN  DayNames[weekday] \o <<" ">> \o MonthNames[dt[2]] \o <<" ">>
        \o PadLeft(NatToStr(dt[3]), 2, " ") \o <<" ">>
        \o PadLeft(NatToStr(dt[4]), 2, "0") \o <<":">>
        \o PadLeft(NatToStr(dt[5]), 2, "0") \o <<":">>
        \o PadLeft(NatToStr(dt[6]), 2, "0") \o <<" ">>
        \o PadLeft(NatToStr(dt[1]), 4, "0")

(***************************************************************************)
(* format_entry.  datetime.ctime accepts a datetime only, and              *)
(* name += entry['SYSLOG_IDENTIFIER'] a str only: any other value raises   *)
(* TypeError.  The words are turned into text by str() when joined.        *)
(***************************************************************************)
Has(entry, k) == k \in DOMAIN entry

\* format_words that leaves the name out when the entry has neither a
\* SYSLOG_IDENTIFIER nor a _PID
format_words_no_colon(entry) ==
    (IF Has(entry, SYSTEMD_UNIT) THEN << <<"U">> >> ELSE << <<"S">> >>)
    \o (IF Has(entry, REALTIME_TIMESTAMP)
        THEN <<ctime(entry[REALTIME_TIMESTAMP].dt)>> ELSE <<>>)
    \o (IF Has(entry, PRIORITY) THEN <<str(entry[PRIORITY])>> ELSE <<>>)
    \o (IF Has(entry, SYSTEMD_UNIT) THEN <<str(entry[SYSTEMD_UNIT])>> ELSE <<>>)
    \o (IF Has(entry, SYSLOG_IDENTIFIER) \/ Has(entry, PID)
        THEN << (IF Has(entry, SYSLOG_IDENTIFIER) THEN entry[SYSLOG_IDENTIFIER].s ELSE <<>>)
                \o (IF Has(entry, PID)
                    THEN <<"[">> \o str(entry[PID]) \o <<"]">> ELSE <<>>)
                \o <<":">> >>
        ELSE <<>>)
    \o <<str(read_entry_message(entry, TRUE))>>

format_words(entry) ==
    (IF Has(entry, SYSTEMD_UNIT) THEN << <<"U">> >> ELSE << <<"S">> >>)
    \o (IF Has(entry, REALTIME_TIMESTAMP)
        THEN <<ctime(entry[REALTIME_TIMESTAMP].dt)>> ELSE <<>>)
    \o (IF Has(entry, PRIORITY) THEN <<str(entry[PRIORITY])>> ELSE <<>>)
    \o (IF Has(entry, SYSTEMD_UNIT) THEN <<str(entry[SYSTEMD_UNIT])>> ELSE <<>>)
    \o << (IF Has(entry, SYSLOG_IDENTIFIER) THEN entry[SYSLOG_IDENTIFIER].s ELSE <<>>)
          \o (IF Has(entry, PID)
              THEN <<"[">> \o str(entry[PID]) \o <<"]">> ELSE <<>>)
          \o <<":">> >>
    \o <<str(read_entry_message(entry, TRUE))>>

format_entry(entry) ==
    IF Has(entry, REALTIME_TIMESTAMP) /\ entry[REALTIME_TIMESTAMP].type # "datetime"
    THEN Raised("TypeError")
    ELSE IF Has(entry, SYSLOG_IDENTIFIER) /\ entry[SYSLOG_IDENTIFIER].type # "str"
    THEN Raised("TypeError")
    ELSE Returned(join(<<" ">>, format_words(entry)))

(***************************************************************************)
(* The rule table: a dict in insertion order, here a sequence of           *)
(* [key |-> <<field, matcher>>, pats |-> patterns].  A matcher is a        *)
(* literal text or a compiled regex; a pattern is a compiled regex, kept   *)
(* as its source text.                                                     *)
(***************************************************************************)
Literal(t) == [kind |-> "literal", pattern |-> t]
Regex(t) == [kind |-> "regex", pattern |-> t]

\* Lines 319-324: the matcher v accepts the entry's field k
key_matches(v, entry, k) ==
    IF v.kind = "regex"
    THEN re_match(v.pattern, str(entry[k]))
    ELSE str(entry[k]) = v.pattern

\* Lines 327-329: the first pattern is tried first; match() of a value that
\* is neither str nor bytes raises TypeError
RECURSIVE try_patterns(_, _)
try_patterns(cur_patterns, entry) ==
    IF cur_patterns = <<>> THEN Returned(FALSE)
    ELSE LET message == read_entry_message(entry, FALSE)
         IN  IF message.type # "str" THEN Raised("TypeError")
             ELSE IF re_match(Head(cur_patterns), message.s) THEN Returned(TRUE)
             ELSE try_patterns(Tail(cur_patterns), entry)

RECURSIVE filter_items(_, _)
filter_items(items, entry) ==
    IF items = <<>> THEN Returned(FALSE)
    ELSE LET k == Head(items).key[1]
             v == Head(items).key[2]
         IN  IF ~Has(entry, k) THEN filter_items(Tail(items), entry)
             ELSE IF ~key_matches(v, entry, k) THEN filter_items(Tail(items), entry)
             ELSE LET r == try_patterns(Head(items).pats, entry)
                  IN  IF r.exc # "none" \/ r.val THEN r
                      ELSE filter_items(Tail(items), entry)

filter_message(patterns, entry) ==
    IF ~Has(entry, MESSAGE) THEN Returned(FALSE) ELSE filter_items(patterns, entry)

(***************************************************************************)
(* read_patterns.  The state of its loop is the dict patterns, is_header,  *)
(* cur_patterns and header (None, or the pair <<field, matcher>>), with    *)
(* the exception raised, if any, and its message.                          *)
(***************************************************************************)
None == <<>>

ReaderInit ==
    [patterns |-> <<>>, is_header |-> TRUE, cur_patterns |-> <<>>,
     header |-> None, exc |-> "none", msg |-> <<>>]

\* A dict_set that extends the list of an existing key
dict_set_merged(patterns, header, cur_patterns) ==
    IF \E i \in 1..Len(patterns) : patterns[i].key = header
    THEN [i \in 1..Len(patterns) |->
            IF patterns[i].key = header
            THEN [key |-> header, pats |-> patterns[i].pats \o cur_patterns]
            ELSE patterns[i]]
    ELSE Append(patterns, [key |-> header, pats |-> cur_patterns])

\* patterns[header] = cur_patterns: an existing key keeps its place in the
\* dict and gets the new value, a new key is added at the end
dict_set(patterns, header, cur_patterns) ==
    IF \E i \in 1..Len(patterns) : patterns[i].key = header
    THEN [i \in 1..Len(patterns) |->
            IF patterns[i].key = header
            THEN [key |-> header, pats |-> cur_patterns]
            ELSE patterns[i]]
    ELSE Append(patterns, [key |-> header, pats |-> cur_patterns])

\* save_block without the test for an empty pattern list
save_block_unchecked(st) ==
    IF st.header # None
    THEN dict_set(st.patterns, st.header, st.cur_patterns)
    ELSE st.patterns

\* Lines 233-234 and 253-254: the block is saved when it has a header and
\* at least one pattern
save_block(st) ==
    IF st.header # None /\ st.cur_patterns # <<>>
    THEN dict_set(st.patterns, st.header, st.cur_patterns)
    ELSE st.patterns

\* Lines 229-236: an empty line
read_empty(st) ==
    [st EXCEPT !.is_header = TRUE,
               !.patterns = save_block(st),
               !.cur_patterns = <<>>,
               !.header = None]

\* "Got config line '{}' without header!".format(line)
NoHeaderMessage(line) ==
    <<"G", "o", "t", " ", "c", "o", "n", "f", "i", "g", " ", "l", "i", "n", "e", " ", "'">>
    \o line
    \o <<"'", " ", "w", "i", "t", "h", "o", "u", "t", " ",
         "h", "e", "a", "d", "e", "r", "!">>

\* read_header that skips a line it cannot split in two instead of raising
read_header_lenient(st, line) ==
    LET parts == split(line, "=")
    IN  IF Len(parts) # 2
        THEN st
        ELSE LET k == parts[1]
                 v == strip(parts[2])
                 isre == startswith(v, "/") /\ endswith(v, "/")
                 inner == SubSeq(v, 2, Len(v) - 1)
             IN  IF isre /\ ~re_valid(inner)
                 THEN [st EXCEPT !.exc = "re.error"]
                 ELSE [st EXCEPT
                         !.header = <<strip(k), IF isre THEN Regex(inner) ELSE Literal(v)>>,
                         !.is_header = FALSE]

\* Lines 237-248: a header line.  k, v = line.split('=') raises ValueError
\* unless the split yields exactly two parts.
read_header(st, line) ==
    LET parts == split(line, "=")
    IN  IF Len(parts) # 2
        THEN [st EXCEPT !.exc = "JournalWatchError", !.msg = NoHeaderMessage(line)]
        ELSE LET k == parts[1]
                 v == strip(parts[2])
                 isre == startswith(v, "/") /\ endswith(v, "/")
                 inner == SubSeq(v, 2, Len(v) - 1)
             IN  IF isre /\ ~re_valid(inner)
                 THEN [st EXCEPT !.exc = "re.error"]
                 ELSE [st EXCEPT
                         !.header = <<strip(k), IF isre THEN Regex(inner) ELSE Literal(v)>>,
                         !.is_header = FALSE]

\* Lines 249-251: a filter line
read_filter(st, line) ==
    LET p == rstrip_nl(line)
    IN  IF ~re_valid(p)
        THEN [st EXCEPT !.exc = "re.error"]
        ELSE [st EXCEPT !.cur_patterns = Append(st.cur_patterns, p)]

\* Lines 226-251: one iteration of the loop
read_line(st, line) ==
    IF startswith(line, "#") THEN st
    ELSE IF strip(line) = <<>> THEN read_empty(st)
    ELSE IF st.is_header THEN read_header(st, line)
    ELSE read_filter(st, line)

\* The end of the loop without lines 253-254
read_end_unsaved(st) == st.patterns

\* Lines 252-255: after the loop
read_end(st) == save_block(st)

RECURSIVE read_loop(_, _)
read_loop(st, lines) ==
    IF lines = <<>> \/ st.exc # "none" THEN st
    ELSE read_loop(read_line(st, Head(lines)), Tail(lines))

\* read_patterns(iterable): the dict returned, or the exception raised
read_patterns(lines) ==
    LET st == read_loop(ReaderInit, lines)
    IN  IF st.exc # "none" THEN [exc |-> st.exc, val |-> <<>>, msg |-> st.msg]
        ELSE [exc |-> "none", val |-> read_end(st), msg |-> <<>>]

(***************************************************************************)
(* The state.  run(): pc is its position, with the files, the clock, the   *)
(* journal and what the output sink received.  read_patterns, called on an *)
(* iterable read line by line: reader is the state of its loop, lines the  *)
(* lines read so far, before the state of the loop before the last line.   *)
(* filter_message and format_entry, called on their own: the arguments     *)
(* and the result.                                                         *)
(***************************************************************************)
VARIABLES
    pc, runs, clock, pattern_file, journal, time_file, config, patterns,
    since, j, output, sent, exit_code,
    time_before, stream, evaluated, journal_opened,
    rpc, reader, lines, before, returned,
    call, arg_patterns, arg_entry, result

runVars == <<pc, runs, clock, pattern_file, journal, time_file, config, patterns,
             since, j, output, sent, exit_code,
             time_before, stream, evaluated, journal_opened>>
readVars == <<rpc, reader, lines, before, returned>>
callVars == <<call, arg_patterns, arg_entry, result>>
vars == <<runVars, readVars, callVars>>

NoConfig == [action |-> "print", since |-> <<>>, mail_to |-> "unset",
             loglevel |-> "warning"]

RunIdle ==
    /\ pc = "idle" /\ runs = 0 /\ clock = 0 /\ pattern_file = <<>>
    /\ journal = <<>> /\ time_file = <<>> /\ config = NoConfig
    /\ patterns = <<>> /\ since = <<>> /\ j = <<>> /\ output = <<>>
    /\ sent = <<>> /\ exit_code = "" /\ time_before = <<>> /\ stream = <<>>
    /\ evaluated = <<>> /\ journal_opened = FALSE

ReadIdle ==
    /\ rpc = "idle" /\ reader = ReaderInit /\ lines = <<>>
    /\ before = ReaderInit /\ returned = None
CallIdle ==
    /\ call = "idle" /\ arg_patterns = <<>> /\ arg_entry = <<>>
    /\ result = Returned(FALSE)

(***************************************************************************)
(* The lines of a patterns file the reader is fed.                         *)
(***************************************************************************)
CommentLine == <<"#", " ", "a", "=", "b", "\n">>
BlankLine == <<" ", "\n">>
HeaderPriority == PRIORITY \o <<" ", "=", " ", "1", "\n">>
HeaderIdentRe == SYSLOG_IDENTIFIER \o <<" ", "=", " ", "/", "s", ".", "*", "/", "\n">>
HeaderTwoEq == PRIORITY \o <<" ", "=", " ", "/", "1", "=", "*", "/", "\n">>
FilterMsg == <<"m", "s", "g", "\n">>
FilterAny == <<".", "*">>
FilterBad == <<"*", "\n">>

RuleLines ==
    {CommentLine, BlankLine, HeaderPriority, HeaderIdentRe, HeaderTwoEq,
     FilterMsg, FilterAny, FilterBad}

(***************************************************************************)
(* read_patterns, one line of the iterable at a time.                      *)
(***************************************************************************)
ReadInit ==
    /\ rpc = "loop" /\ reader = ReaderInit /\ lines = <<>>
    /\ before = ReaderInit /\ returned = None
    /\ CallIdle /\ RunIdle

\* for line in iterable: one iteration; an exception ends the call
ReadLine ==
    /\ rpc = "loop"
    /\ Len(lines) < MaxLines
    /\ \E line \in RuleLines :
         /\ reader' = read_line(reader, line)
         /\ lines' = Append(lines, line)
    /\ before' = reader
    /\ rpc' = IF reader'.exc # "none" THEN "raised" ELSE "loop"
    /\ UNCHANGED <<returned, callVars, runVars>>

\* The iterable is exhausted: the last block is saved and the dict returned
ReadReturn ==
    /\ rpc = "loop"
    /\ returned' = read_end(reader)
    /\ rpc' = "returned"
    /\ UNCHANGED <<reader, lines, before, callVars, runVars>>

ReadNext == ReadLine \/ ReadReturn

SpecRead == ReadInit /\ [][ReadNext]_vars

(***************************************************************************)
(* Properties of read_patterns.                                            *)
(***************************************************************************)
LastLine == lines[Len(lines)]
Count(s, c) == Cardinality({i \in 1..Len(s) : s[i] = c})
IsComment(line) == startswith(line, "#")
IsBlank(line) == ~IsComment(line) /\ \A i \in 1..Len(line) : line[i] \in Whitespace
\* t occurs in s as a contiguous piece
Contains(s, t) ==
    \E i \in 0..(Len(s) - Len(t)) : SubSeq(s, i + 1, i + Len(t)) = t

\* The last line read was read where a header is expected
InHeaderPosition ==
    /\ lines # <<>>
    /\ before.is_header
    /\ ~IsComment(LastLine)
    /\ ~IsBlank(LastLine)

\* C5: every entry of the dict, while it is built and when it is returned,
\* has at least one pattern, and closing a block that has a header and no
\* pattern, by an empty line or by the end of the input, leaves the dict as
\* it was.
C5_OnlyBlocksWithPatterns ==
    /\ \A i \in 1..Len(reader.patterns) : reader.patterns[i].pats # <<>>
    /\ rpc = "returned" => \A i \in 1..Len(returned) : returned[i].pats # <<>>
    /\ (lines # <<>> /\ IsBlank(LastLine)
        /\ before.header # None /\ before.cur_patterns = <<>>)
       => reader.patterns = before.patterns
    /\ (rpc = "returned" /\ reader.header # None /\ reader.cur_patterns = <<>>)
       => returned = reader.patterns

\* A dict with an entry is returned after a last block of a header alone
C5_Witness ==
    /\ rpc = "returned"
    /\ Len(returned) >= 1
    /\ reader.header # None
    /\ reader.cur_patterns = <<>>

\* C6: when the line read where a header is expected holds no '=',
\* JournalWatchError is raised with that very line in its message, and no
\* dict is returned.
C6_NoEqualsRaises ==
    (InHeaderPosition /\ Count(LastLine, "=") = 0)
    => /\ reader.exc = "JournalWatchError"
       /\ Contains(reader.msg, LastLine)
       /\ rpc = "raised"
       /\ returned = None

\* The error is raised after a block was saved
C6_Witness ==
    /\ InHeaderPosition
    /\ Count(LastLine, "=") = 0
    /\ reader.exc = "JournalWatchError"
    /\ Len(reader.patterns) >= 1

\* The text before and after the first '=' of a line
FirstEq(line) == CHOOSE i \in 1..Len(line) :
                     line[i] = "=" /\ \A m \in 1..(i - 1) : line[m] # "="
BeforeFirstEq(line) == SubSeq(line, 1, FirstEq(line) - 1)
AfterFirstEq(line) == SubSeq(line, FirstEq(line) + 1, Len(line))
MatcherOf(v) ==
    IF startswith(v, "/") /\ endswith(v, "/")
    THEN Regex(SubSeq(v, 2, Len(v) - 1))
    ELSE Literal(v)

\* C10: a line with two or more '=' read where a header is expected is
\* accepted, the field being the trimmed text before its first '=' and the
\* matcher built from the trimmed text after it.
C10_SplitAtFirstEquals ==
    (InHeaderPosition /\ Count(LastLine, "=") >= 2)
    => /\ reader.exc = "none"
       /\ reader.header = <<strip(BeforeFirstEq(LastLine)),
                            MatcherOf(strip(AfterFirstEq(LastLine)))>>

(***************************************************************************)
(* filter_message and format_entry called on their own.  An entry is       *)
(* built from one choice per field, Absent leaving the field out.          *)
(***************************************************************************)
Absent == [type |-> "absent", s |-> <<>>, n |-> 0, b |-> <<>>, dt |-> <<>>]

MakeEntry(fields) ==
    [k \in {f \in DOMAIN fields : fields[f] # Absent} |-> fields[k]]

Msg == <<"m", "s", "g">>
MsgBytes == <<109, 115, 103>>
DeadBeef == <<222, 173, 190, 239>>

FilterEntries ==
    { MakeEntry((PRIORITY :> p) @@ (SYSLOG_IDENTIFIER :> s) @@ (MESSAGE :> m)) :
        p \in {Absent, IntV(1), StrV(<<"1">>), IntV(2)},
        s \in {Absent, StrV(<<"s", "y", "s">>), StrV(<<"b", "a", "r">>), BytesV(<<115>>)},
        m \in {Absent, StrV(Msg), StrV(<<"x">> \o Msg), StrV(<<>>),
               BytesV(DeadBeef), BytesV(MsgBytes), IntV(1)} }

FilterKeys ==
    { <<PRIORITY, Literal(<<"1">>)>>,
      <<SYSLOG_IDENTIFIER, Regex(<<"s", ".", "*">>)>>,
      <<SYSLOG_IDENTIFIER, Literal(<<"b", "a", "r">>)>> }

FilterLists == { <<>>, <<Msg>>, <<FilterAny>>, <<<<"x">>, Msg>> }

FilterItems == { [key |-> k, pats |-> l] : k \in FilterKeys, l \in FilterLists }

\* The dicts of at most MaxConds entries: no key twice
RECURSIVE Tables(_)
Tables(n) ==
    IF n = 0 THEN { <<>> }
    ELSE LET shorter == Tables(n - 1)
         IN  shorter \cup
             { Append(t, it) : t \in { u \in shorter : Len(u) = n - 1 },
                               it \in FilterItems }

DistinctKeys(t) ==
    \A i, k \in 1..Len(t) : t[i].key = t[k].key => i = k

FilterTables == { t \in Tables(MaxConds) : DistinctKeys(t) }

FilterInit ==
    /\ call = "filter_message"
    /\ arg_patterns \in FilterTables
    /\ arg_entry \in FilterEntries
    /\ result = Returned(FALSE)
    /\ ReadIdle /\ RunIdle

FilterCall ==
    /\ call = "filter_message"
    /\ result' = filter_message(arg_patterns, arg_entry)
    /\ call' = "done"
    /\ UNCHANGED <<arg_patterns, arg_entry, readVars, runVars>>

SpecFilter == FilterInit /\ [][FilterCall]_vars

Epoch == <<1970, 1, 1, 0, 0, 0>>
Foo == <<"f", "o", "o">>

FormatEntries ==
    { MakeEntry((SYSTEMD_UNIT :> u) @@ (REALTIME_TIMESTAMP :> t) @@ (PRIORITY :> p)
                @@ (SYSLOG_IDENTIFIER :> s) @@ (PID :> i) @@ (MESSAGE :> m)) :
        u \in {Absent, StrV(Foo), BytesV(MsgBytes)},
        t \in {Absent, DateV(Epoch), DateV(<<2014, 3, 9, 13, 5, 59>>), IntV(0)},
        p \in {Absent, IntV(3), StrV(<<"p", "r", "i", "o">>)},
        s \in {Absent, StrV(<<"s", "y", "s">>), BytesV(DeadBeef), IntV(7)},
        i \in {Absent, IntV(1337), StrV(<<"1">>)},
        m \in {Absent, StrV(<<"H", "i", " ", "W">>), BytesV(DeadBeef), IntV(1),
               DateV(Epoch)} }

FormatInit ==
    /\ call = "format_entry"
    /\ arg_patterns = <<>>
    /\ arg_entry \in FormatEntries
    /\ result = Returned(FALSE)
    /\ ReadIdle /\ RunIdle

FormatCall ==
    /\ call = "format_entry"
    /\ result' = format_entry(arg_entry)
    /\ call' = "done"
    /\ UNCHANGED <<arg_patterns, arg_entry, readVars, runVars>>

SpecFormat == FormatInit /\ [][FormatCall]_vars

(***************************************************************************)
(* Properties of filter_message and format_entry.                          *)
(***************************************************************************)
\* The matcher v is satisfied by the text t: equality for a literal, a
\* match from position 0 for a regex
Satisfied(v, t) == IF v.kind = "regex" THEN re_match(v.pattern, t) ELSE t = v.pattern

\* Some entry of the table applies to the entry and has a pattern that
\* matches the text from position 0
SomeRuleMatches(table, entry, text) ==
    \E i \in 1..Len(table) :
        /\ Has(entry, table[i].key[1])
        /\ Satisfied(table[i].key[2], str(entry[table[i].key[1]]))
        /\ \E n \in 1..Len(table[i].pats) : re_match(table[i].pats[n], text)

\* The message content coerced to text
MessageText(entry) ==
    IF entry[MESSAGE].type = "bytes"
    THEN BlobText(Len(entry[MESSAGE].b))
    ELSE str(entry[MESSAGE])

\* C1: filter_message returns True exactly when the entry has a MESSAGE and
\* some entry of the table applies and has a pattern matching the message as
\* text, and returns False, without raising, in every other case.
C1_TrueIffSomeRuleMatches ==
    call = "done"
    => /\ result.exc = "none"
       /\ result.val = (/\ Has(arg_entry, MESSAGE)
                        /\ SomeRuleMatches(arg_patterns, arg_entry,
                                           MessageText(arg_entry)))

HasBlobMessage == Has(arg_entry, MESSAGE) /\ arg_entry[MESSAGE].type = "bytes"

\* C2 as stated: an entry whose MESSAGE is bytes is never filtered.
C2_BlobNeverFiltered ==
    (call = "done" /\ HasBlobMessage) => result = Returned(FALSE)

\* C2 as amended: an entry whose MESSAGE is bytes is filtered exactly when a
\* pattern of an entry of the table that applies matches the blob text
\* "[journalwatch: <n>B blob data]" from position 0; the bytes themselves are
\* never matched.
C2_BlobFilteredByBlobText ==
    (call = "done" /\ HasBlobMessage)
    => /\ result.exc = "none"
       /\ result.val = SomeRuleMatches(arg_patterns, arg_entry,
                                       BlobText(Len(arg_entry[MESSAGE].b)))

\* The bytes b'msg' under a rule that applies and whose pattern is msg: not
\* filtered
C2_Witness ==
    /\ call = "done"
    /\ HasBlobMessage
    /\ arg_entry[MESSAGE].b = MsgBytes
    /\ SomeRuleMatches(arg_patterns, arg_entry, Msg)
    /\ result = Returned(FALSE)

\* C4: format_entry returns a string and never raises.
C4_FormatNeverRaises ==
    call = "done" => result.exc = "none"

Opt(entry, k, text) == IF Has(entry, k) THEN text ELSE <<>>

\* The expected line, written out token by token
FormatExpected(entry) ==
    (IF Has(entry, SYSTEMD_UNIT) THEN <<"U">> ELSE <<"S">>)
    \o Opt(entry, REALTIME_TIMESTAMP, <<" ">> \o ctime(entry[REALTIME_TIMESTAMP].dt))
    \o Opt(entry, PRIORITY, <<" ">> \o str(entry[PRIORITY]))
    \o Opt(entry, SYSTEMD_UNIT, <<" ">> \o str(entry[SYSTEMD_UNIT]))
    \o <<" ">>
    \o Opt(entry, SYSLOG_IDENTIFIER, str(entry[SYSLOG_IDENTIFIER]))
    \o Opt(entry, PID, <<"[">> \o str(entry[PID]) \o <<"]">>)
    \o <<":", " ">>
    \o (IF Has(entry, MESSAGE) THEN MessageText(entry) ELSE EMPTY)

UnitFooOnly == (SYSTEMD_UNIT :> StrV(Foo))

\* C8: the string format_entry returns is the single-space join of U or S,
\* the ctime of the timestamp, the priority, the unit, the name
\* (identifier, [pid], ':') and the message, absent fields adding nothing;
\* {_SYSTEMD_UNIT: 'foo'} gives 'U foo : EMPTY!'.
C8_FormatIsJoin ==
    (call = "done" /\ result.exc = "none")
    => /\ result.val = FormatExpected(arg_entry)
       /\ arg_entry = UnitFooOnly
          => result.val = <<"U", " ", "f", "o", "o", " ", ":", " ",
                            "E", "M", "P", "T", "Y", "!">>

C8_Witness ==
    /\ call = "done"
    /\ arg_entry = UnitFooOnly
    /\ result.exc = "none"

(***************************************************************************)
(* main() and run().  The patterns file and the journal are there before   *)
(* the program runs; each run gets its command line, and the clock has     *)
(* advanced.  Times are seconds since the epoch.                           *)
(***************************************************************************)
\* timedelta(minutes=1), in seconds
Backoff == 60

PatternFiles ==
    { <<HeaderPriority, FilterMsg>>,
      <<HeaderIdentRe, FilterAny, BlankLine, HeaderPriority, FilterMsg>>,
      <<CommentLine, BlankLine>>,
      <<HeaderPriority, BlankLine>>,
      <<FilterMsg>>,
      <<HeaderPriority, FilterBad>> }

\* What the journal holds besides the timestamp
Records ==
    { MakeEntry((PRIORITY :> IntV(1)) @@ (MESSAGE :> StrV(Msg))),
      MakeEntry((PRIORITY :> IntV(2)) @@ (MESSAGE :> StrV(Msg)) @@ (PID :> IntV(7))),
      MakeEntry((PRIORITY :> IntV(1)) @@ (MESSAGE :> BytesV(DeadBeef))),
      MakeEntry((PRIORITY :> IntV(3)) @@ (MESSAGE :> StrV(<<"x">>))
                @@ (SYSLOG_IDENTIFIER :> BytesV(DeadBeef))) }

RECURSIVE Streams(_)
Streams(n) ==
    IF n = 0 THEN { <<>> }
    ELSE LET shorter == Streams(n - 1)
         IN  shorter \cup
             { Append(t, r) : t \in { u \in shorter : Len(u) = n - 1 }, r \in Records }

\* datetime.fromtimestamp(t), for a time within the first hour of the epoch
fromtimestamp(t) == <<1970, 1, 1, 0, t \div 60, t % 60>>
\* and back
timestamp(dt) == dt[5] * 60 + dt[6]

\* The i-th record of the journal was logged at 80 * i
Logged(rs) ==
    [i \in 1..Len(rs) |->
        rs[i] @@ (REALTIME_TIMESTAMP :> DateV(fromtimestamp(80 * i)))]

Configs ==
    [action : {"print", "mail"},
     since : { <<"a", "l", "l">>, <<"n", "e", "w">>, <<"9", "0">>, <<"1", "h">> },
     mail_to : {"unset", "set"},
     loglevel : {"warning", "loud"}]

Init ==
    /\ pc = "idle" /\ runs = 0 /\ clock = 0
    /\ pattern_file \in PatternFiles
    /\ journal \in { Logged(rs) : rs \in Streams(MaxJournal) }
    /\ time_file = <<>>
    /\ config = NoConfig
    /\ patterns = <<>> /\ since = <<>> /\ j = <<>> /\ output = <<>>
    /\ sent = <<>> /\ exit_code = "" /\ time_before = <<>> /\ stream = <<>>
    /\ evaluated = <<>> /\ journal_opened = FALSE
    /\ ReadIdle /\ CallIdle

\* run() ends: main() returns 0, or 1 on JournalWatchError; any other
\* exception leaves main() with a traceback
Exit(code) == pc' = "exited" /\ exit_code' = code

\* The program is started: main() calls run(), and parse_args() reads the
\* command line and the config file
Main ==
    /\ pc \in {"idle", "exited"}
    /\ runs < MaxRuns
    /\ runs' = runs + 1
    /\ clock' = clock + 100
    /\ config' \in Configs
    /\ output' = <<>> /\ sent' = <<>> /\ exit_code' = ""
    /\ patterns' = <<>> /\ since' = <<>> /\ j' = <<>>
    /\ time_before' = time_file
    /\ stream' = <<>> /\ evaluated' = <<>> /\ journal_opened' = FALSE
    /\ pc' = "parse_config_files"
    /\ UNCHANGED <<pattern_file, journal, time_file, readVars, callVars>>

\* parse_config_files without the test of lines 361-363
ParseConfigFilesUnchecked ==
    /\ pc = "parse_config_files"
    /\ LET r == read_patterns(pattern_file)
       IN  IF r.exc = "JournalWatchError"
           THEN Exit("1") /\ UNCHANGED patterns
           ELSE IF r.exc # "none"
           THEN Exit("traceback") /\ UNCHANGED patterns
           ELSE patterns' = r.val /\ pc' = "logging" /\ UNCHANGED exit_code
    /\ UNCHANGED <<runs, clock, pattern_file, journal, time_file, config,
                   since, j, output, sent, time_before, stream, evaluated,
                   journal_opened, readVars, callVars>>

\* Line 469: the patterns file, which exists, is read; no pattern is an error
ParseConfigFiles ==
    /\ pc = "parse_config_files"
    /\ LET r == read_patterns(pattern_file)
       IN  IF r.exc = "JournalWatchError"
           THEN Exit("1") /\ UNCHANGED patterns
           ELSE IF r.exc # "none"
           THEN Exit("traceback") /\ UNCHANGED patterns
           ELSE IF r.val = <<>>
           THEN Exit("1") /\ UNCHANGED patterns
           ELSE patterns' = r.val /\ pc' = "logging" /\ UNCHANGED exit_code
    /\ UNCHANGED <<runs, clock, pattern_file, journal, time_file, config,
                   since, j, output, sent, time_before, stream, evaluated,
                   journal_opened, readVars, callVars>>

\* Lines 470-474: a loglevel the logging module does not know is an error
SetupLogging ==
    /\ pc = "logging"
    /\ IF config.loglevel = "warning"
       THEN pc' = "parse_since" /\ UNCHANGED exit_code
       ELSE Exit("1")
    /\ UNCHANGED <<runs, clock, pattern_file, journal, time_file, config, patterns,
                   since, j, output, sent, time_before, stream, evaluated,
                   journal_opened, readVars, callVars>>

IsDigit(c) == c \in {"0", "1", "2", "3", "4", "5", "6", "7", "8", "9"}
DigitValue(c) == CHOOSE d \in 0..9 : Digit(d) = c

RECURSIVE DigitsValue(_)
DigitsValue(s) ==
    IF s = <<>> THEN 0
    ELSE DigitsValue(SubSeq(s, 1, Len(s) - 1)) * 10 + DigitValue(s[Len(s)])

\* int(s), for a text of digits and letters: ValueError unless all are digits
int(s) ==
    IF s # <<>> /\ \A i \in 1..Len(s) : IsDigit(s[i])
    THEN Returned(DigitsValue(s))
    ELSE Raised("ValueError")

\* parse_since: None (here <<>>) or the time to start at
parse_since ==
    IF config.since = <<"a", "l", "l">> THEN Returned(<<>>)
    ELSE IF config.since = <<"n", "e", "w">>
    THEN IF time_file = <<>> THEN Returned(<<>>)
         ELSE Returned(<<time_file[1] - Backoff>>)
    ELSE IF int(config.since).exc # "none" THEN Raised("JournalWatchError")
    ELSE Returned(<<clock - int(config.since).val>>)

\* Line 475
ParseSince ==
    /\ pc = "parse_since"
    /\ IF parse_since.exc # "none"
       THEN Exit("1") /\ UNCHANGED since
       ELSE since' = parse_since.val /\ pc' = "write_time_file" /\ UNCHANGED exit_code
    /\ UNCHANGED <<runs, clock, pattern_file, journal, time_file, config, patterns,
                   j, output, sent, time_before, stream, evaluated,
                   journal_opened, readVars, callVars>>

\* Line 476: write_time_file stores time.time()
WriteTimeFile ==
    /\ pc = "write_time_file"
    /\ time_file' = <<clock>>
    /\ pc' = "get_journal"
    /\ UNCHANGED <<runs, clock, pattern_file, journal, config, patterns, since,
                   j, output, sent, exit_code, time_before, stream, evaluated,
                   journal_opened, readVars, callVars>>

\* Line 477: the reader yields what was logged by now, from since on
get_journal(start) ==
    SelectSeq(journal,
              LAMBDA e : /\ timestamp(e[REALTIME_TIMESTAMP].dt) <= clock
                         /\ start # <<>>
                            => timestamp(e[REALTIME_TIMESTAMP].dt) >= start[1])

GetJournal ==
    /\ pc = "get_journal"
    /\ j' = get_journal(since)
    /\ stream' = get_journal(since)
    /\ journal_opened' = TRUE
    /\ pc' = "loop"
    /\ UNCHANGED <<runs, clock, pattern_file, journal, time_file, config, patterns,
                   since, output, sent, exit_code, time_before, evaluated,
                   readVars, callVars>>

\* The loop body with the test of line 479 inverted
NextEntryInverted ==
    /\ pc = "loop"
    /\ j # <<>>
    /\ LET entry == Head(j)
           f == filter_message(patterns, entry)
       IN  /\ evaluated' = Append(evaluated, entry)
           /\ j' = Tail(j)
           /\ IF f.exc # "none"
              THEN Exit("traceback") /\ UNCHANGED output
              ELSE IF ~f.val
              THEN UNCHANGED <<pc, exit_code, output>>
              ELSE IF format_entry(entry).exc # "none"
              THEN Exit("traceback") /\ UNCHANGED output
              ELSE /\ output' = Append(output, format_entry(entry).val)
                   /\ UNCHANGED <<pc, exit_code>>
    /\ UNCHANGED <<runs, clock, pattern_file, journal, time_file, config, patterns,
                   since, sent, time_before, stream, journal_opened,
                   readVars, callVars>>

\* Lines 478-480: one entry of the journal; a TypeError is not caught
NextEntry ==
    /\ pc = "loop"
    /\ j # <<>>
    /\ LET entry == Head(j)
           f == filter_message(patterns, entry)
       IN  /\ evaluated' = Append(evaluated, entry)
           /\ j' = Tail(j)
           /\ IF f.exc # "none"
              THEN Exit("traceback") /\ UNCHANGED output
              ELSE IF f.val
              THEN UNCHANGED <<pc, exit_code, output>>
              ELSE IF format_entry(entry).exc # "none"
              THEN Exit("traceback") /\ UNCHANGED output
              ELSE /\ output' = Append(output, format_entry(entry).val)
                   /\ UNCHANGED <<pc, exit_code>>
    /\ UNCHANGED <<runs, clock, pattern_file, journal, time_file, config, patterns,
                   since, sent, time_before, stream, journal_opened,
                   readVars, callVars>>

\* Lines 481-486: nothing to report, or send_mail (JournalWatchError when
\* mail_to is not set, lines 402-407), or print_output
Deliver ==
    /\ pc = "loop"
    /\ j = <<>>
    /\ IF output = <<>>
       THEN Exit("0") /\ UNCHANGED sent
       ELSE IF config.action = "mail"
       THEN IF config.mail_to = "unset"
            THEN Exit("1") /\ UNCHANGED sent
            ELSE /\ sent' = <<[sink |-> "mail", lines |-> output,
                               count |-> Len(output), start |-> since]>>
                 /\ Exit("0")
       ELSE /\ sent' = <<[sink |-> "print", lines |-> output,
                          count |-> Len(output), start |-> since]>>
            /\ Exit("0")
    /\ UNCHANGED <<runs, clock, pattern_file, journal, time_file, config, patterns,
                   since, j, output, time_before, stream, evaluated,
                   journal_opened, readVars, callVars>>

Next ==
    \/ Main
    \/ ParseConfigFiles
    \/ SetupLogging
    \/ ParseSince
    \/ WriteTimeFile
    \/ GetJournal
    \/ NextEntry
    \/ Deliver

Spec == Init /\ [][Next]_vars

(***************************************************************************)
(* Properties of run().                                                    *)
(***************************************************************************)
\* C3: a run that ends in a fatal error (main() returns 1) leaves the time
\* file as it was when the run began.
C3_FailedRunKeepsTimeFile ==
    (pc = "exited" /\ exit_code = "1") => time_file = time_before

\* The patterns file compiles to an empty dict
NoPatterns ==
    /\ read_patterns(pattern_file).exc = "none"
    /\ read_patterns(pattern_file).val = <<>>

\* C7: with an empty dict of patterns the run ends in the error of
\* parse_config_files: main() returns 1, the journal was not opened, no
\* entry was filtered or formatted, and nothing was printed or mailed.
C7_NoPatternsStopsTheRun ==
    (NoPatterns /\ pc \notin {"idle", "parse_config_files"})
    => /\ pc = "exited"
       /\ exit_code = "1"
       /\ ~journal_opened
       /\ evaluated = <<>>
       /\ output = <<>>
       /\ sent = <<>>

\* A run on a patterns file of a header alone, with a journal to read
C7_Witness ==
    /\ NoPatterns
    /\ pattern_file = <<HeaderPriority, BlankLine>>
    /\ journal # <<>>
    /\ pc = "exited"
    /\ exit_code = "1"

\* The lines of the entries that filter_message does not filter, in order
RECURSIVE KeptLines(_, _)
KeptLines(table, entries) ==
    IF entries = <<>> THEN <<>>
    ELSE IF filter_message(table, Head(entries)) = Returned(FALSE)
    THEN <<format_entry(Head(entries)).val>> \o KeptLines(table, Tail(entries))
    ELSE KeptLines(table, Tail(entries))

\* C9: what is printed or mailed is the list of the formatted lines of the
\* entries of the stream that filter_message does not filter, in stream
\* order, every entry of the stream having gone through the loop once; and
\* a run that kept no entry ends without printing or mailing.
C9_SinkGetsKeptLines ==
    /\ sent # <<>>
       => /\ patterns # <<>>
          /\ evaluated = stream
          /\ sent[1].lines = KeptLines(patterns, stream)
          /\ sent[1].lines # <<>>
    /\ (pc = "exited" /\ exit_code = "0" /\ KeptLines(patterns, stream) = <<>>)
       => sent = <<>>

\* Two entries were read, one filtered and one delivered
C9_Witness ==
    /\ sent # <<>>
    /\ Len(stream) = 2
    /\ Len(sent[1].lines) = 1

(***************************************************************************)
(* Properties of read_patterns on the whole input.                         *)
(***************************************************************************)
\* The outcome of a call: the dict returned, or the exception
Outcome(r) == IF r.exc = "none" THEN <<"returned", r.val>> ELSE <<"raised", r.exc>>

\* The outcome of the call the reader has made on lines
ReaderOutcome ==
    IF rpc = "returned" THEN <<"returned", returned>> ELSE <<"raised", reader.exc>>

\* ls with the line put in after its first i lines
InsertAt(ls, i, line) == SubSeq(ls, 1, i) \o <<line>> \o SubSeq(ls, i + 1, Len(ls))

\* C11: the call on lines and a call on lines followed by one blank line
\* return the same dict or both raise, so a last block with a header and a
\* pattern is saved without a closing blank line; a comment line leaves the
\* state of the loop as it was, and put anywhere into the input it does not
\* change the outcome.
C11_EndOfInputClosesBlock ==
    /\ rpc \in {"returned", "raised"}
       => /\ \A blank \in {BlankLine, <<>>, <<"\n">>} :
                Outcome(read_patterns(Append(lines, blank))) = ReaderOutcome
          /\ \A i \in 0..Len(lines) :
                Outcome(read_patterns(InsertAt(lines, i, CommentLine))) = ReaderOutcome
    /\ (rpc = "returned" /\ reader.header # None /\ reader.cur_patterns # <<>>)
       => \E i \in 1..Len(returned) :
             /\ returned[i].key = reader.header
             /\ returned[i].pats = reader.cur_patterns
    /\ (lines # <<>> /\ IsComment(LastLine)) => reader = before

\* A dict is returned for an input that ends in a pattern line of a block
\* with a comment line inside
C11_Witness ==
    /\ rpc = "returned"
    /\ Len(lines) >= 3
    /\ ~IsBlank(LastLine) /\ ~IsComment(LastLine)
    /\ IsComment(lines[Len(lines) - 1])
    /\ reader.header # None
    /\ reader.cur_patterns # <<>>
    /\ returned # <<>>

\* The blocks of the input: the runs of lines between blank lines, comment
\* lines left out
RECURSIVE BlocksOf(_, _, _)
BlocksOf(ls, cur, done) ==
    IF ls = <<>> THEN (IF cur # <<>> THEN Append(done, cur) ELSE done)
    ELSE IF IsComment(Head(ls)) THEN BlocksOf(Tail(ls), cur, done)
    ELSE IF IsBlank(Head(ls))
    THEN BlocksOf(Tail(ls), <<>>, IF cur # <<>> THEN Append(done, cur) ELSE done)
    ELSE BlocksOf(Tail(ls), Append(cur, Head(ls)), done)

Blocks == BlocksOf(lines, <<>>, <<>>)

\* The header of a block, and its pattern lines in file order
BlockKey(b) == <<strip(BeforeFirstEq(b[1])), MatcherOf(strip(AfterFirstEq(b[1])))>>
BlockPatterns(b) == [i \in 1..(Len(b) - 1) |-> rstrip_nl(b[i + 1])]

\* Block k is the last block with its header that has a pattern line, and
\* an earlier block with a pattern line has the same header
LaterDuplicate(k) ==
    /\ Len(Blocks[k]) >= 2
    /\ \E i \in 1..(k - 1) :
          Len(Blocks[i]) >= 2 /\ BlockKey(Blocks[i]) = BlockKey(Blocks[k])
    /\ \A m \in (k + 1)..Len(Blocks) :
          Len(Blocks[m]) >= 2 => BlockKey(Blocks[m]) # BlockKey(Blocks[k])

\* Entries the returned dict is tried on
ProbeEntries ==
    { MakeEntry((PRIORITY :> p) @@ (SYSLOG_IDENTIFIER :> s) @@ (MESSAGE :> m)) :
        p \in {Absent, IntV(1)},
        s \in {Absent, StrV(<<"s", "y", "s">>)},
        m \in {StrV(Msg), StrV(<<"x">> \o Msg)} }

\* Some entry of the table other than the one with this key applies to the
\* entry and has a pattern that matches its message
OtherRuleMatches(table, key, entry) ==
    SomeRuleMatches(SelectSeq(table, LAMBDA it : it.key # key), entry,
                    MessageText(entry))

\* C12: when two blocks with a pattern line have the same header, the dict
\* returned has one entry for that header, and its list is the pattern lines
\* of the later block in file order; an entry that only a pattern of the
\* earlier block matches is not filtered.
C12_LaterBlockReplaces ==
    rpc = "returned"
    => \A k \in 1..Len(Blocks) :
          LaterDuplicate(k)
          => LET key == BlockKey(Blocks[k])
                 pats == BlockPatterns(Blocks[k])
             IN  /\ Cardinality({i \in 1..Len(returned) : returned[i].key = key}) = 1
                 /\ \A i \in 1..Len(returned) :
                       returned[i].key = key => returned[i].pats = pats
                 /\ \A e \in ProbeEntries :
                       (/\ ~SomeRuleMatches(<<[key |-> key, pats |-> pats]>>, e,
                                            MessageText(e))
                        /\ ~OtherRuleMatches(returned, key, e))
                       => filter_message(returned, e) = Returned(FALSE)

\* Two blocks PRIORITY = 1, the first with the pattern .* and the second
\* with msg: the dict returned does not filter the message xmsg
C12_Witness ==
    /\ rpc = "returned"
    /\ lines = <<HeaderPriority, FilterAny, BlankLine, HeaderPriority, FilterMsg>>
    /\ returned = <<[key |-> <<PRIORITY, Literal(<<"1">>)>>, pats |-> <<Msg>>]>>
    /\ filter_message(returned,
                      MakeEntry((PRIORITY :> IntV(1))
                                @@ (MESSAGE :> StrV(<<"x">> \o Msg))))
       = Returned(FALSE)

====
